---- MODULE Spec2Model ----
(***************************************************************************)
(* Model of src/main/fc/config.c: configuration validation                 *)
(* (validateAndFixConfig, validateAndFixGyroConfig), the persistence       *)
(* operations (readEEPROM, writeUnmodifiedConfigToEEPROM, writeEEPROM,     *)
(* writeEEPROMWithFeatures, resetEEPROM, ensureEEPROMStructureIsValid,     *)
(* saveConfigAndNotify), the profile manager (changePidProfile,            *)
(* changePidProfileFromCellCount) and the dirty / reboot flags.            *)
(*                                                                         *)
(* The configuration store is the record cfg.  It holds every parameter    *)
(* group field that config.c itself reads or rewrites.  Repairs that       *)
(* config.c delegates entirely to functions of other files (mixer tables,  *)
(* isSerialConfigValid, mode-activation-condition removal, sensor          *)
(* alignment, OSD timers, beeper masks) touch parameter groups that no     *)
(* statement below reads, and are not part of cfg.                         *)
(*                                                                         *)
(* Times are kept as rates in Hz: every sampling interval and every motor  *)
(* update restriction of the source is 1/rate for an integer rate, so      *)
(*    samplingTime * sync * denom < motorUpdateRestriction                 *)
(* is  sync * denom * motorRate < samplingRate, and the float quotient     *)
(* motorUpdateRestriction / (samplingTime * sync), truncated by the        *)
(* conversion to int, is  samplingRate \div (motorRate * sync).  The only  *)
(* exact integer quotients arise for 8 kHz sampling with power-of-two      *)
(* factors, where single-precision arithmetic is exact.                    *)
(***************************************************************************)
EXTENDS Integers, Sequences, FiniteSets, TLC

VARIABLES
    cfg,                        \* the in-memory parameter groups
    eeprom,                     \* non-volatile storage: [valid, cfg]
    currentPidProfile,          \* pidProfile_t *currentPidProfile (slot index, NULL)
    currentControlRateProfile,  \* the rate profile pointer (slot index, NULL)
    configIsDirty,
    rebootRequired,
    suspendCount,               \* depth of suspendRxPwmPpmSignal()
    calls,                      \* calls made to collaborators by the last operation
    hung,                       \* an operation entered a loop that never exits
    env,                        \* the build and the detected hardware
    lastOp,                     \* the operation that ran last, with its arguments
    entry                       \* the program state at entry of that operation (St)

vars == <<cfg, eeprom, currentPidProfile, currentControlRateProfile, configIsDirty,
          rebootRequired, suspendCount, calls, hung, env, lastOp, entry>>

-----------------------------------------------------------------------------
(* Size of the PID profile array.  The header that fixes it is outside        *)
(* config.c; nothing in config.c depends on its value beyond the loops and   *)
(* comparisons below.  Four slots hold the profile taggings [Stay, 4, Stay,  *)
(* 6] and [4, 4, Stay, 6].                                                   *)
PID_PROFILE_COUNT == 4

(* Compile-time parameters.  Their #defines live in headers outside         *)
(* config.c; the values are those of the headers config.c includes.         *)
CONTROL_RATE_PROFILE_COUNT == 6
FILTER_FREQUENCY_MAX == 4000
MAX_PID_PROCESS_DENOM == 16
BRUSHLESS_MOTORS_PWM_RATE == 480
MAX_AUTO_DETECT_CELL_COUNT == 8
AUTO_PROFILE_CELL_COUNT_STAY == 0
AUTO_PROFILE_CELL_COUNT_CHANGE == -1
DYNAMIC_FILTER_MAX_SUPPORTED_LOOP_TIME == 500
FD_YAW == 2
NULL == -1

(* Bounds of the inputs the model enumerates. *)
MaxSyncDenom == 4
MaxPidDenom == 4
MaxCellCount == 7

MIN(a, b) == IF a < b THEN a ELSE b
MAX(a, b) == IF a > b THEN a ELSE b
constrain(amt, low, high) == IF amt < low THEN low ELSE IF amt > high THEN high ELSE amt

RX_FEATURES == {"RX_PPM", "RX_PARALLEL_PWM", "RX_SERIAL", "RX_MSP", "RX_SPI"}

featureIsEnabled(c, f) == f \in c.features
featureEnable(c, mask) == [c EXCEPT !.features = @ \cup mask]
featureDisable(c, mask) == [c EXCEPT !.features = @ \ mask]
featureDisableAll(c) == [c EXCEPT !.features = {}]

defined(e, d) == d \in e.defs

(* enum order of pwmProtocolTypes_e, used by "<= PWM_TYPE_BRUSHED" *)
pwmProtocolOrdinal(p) ==
    CASE p = "STANDARD" -> 0 [] p = "ONESHOT125" -> 1 [] p = "ONESHOT42" -> 2
      [] p = "MULTISHOT" -> 3 [] p = "BRUSHED" -> 4 [] p = "DSHOT150" -> 5
      [] p = "DSHOT300" -> 6 [] p = "DSHOT600" -> 7 [] p = "PROSHOT1000" -> 8

-----------------------------------------------------------------------------
(* adjustFilterLimit: the new value of *parm *)
adjustFilterLimit(parm, resetValue) ==
    IF parm > FILTER_FREQUENCY_MAX THEN resetValue ELSE parm

(* lines 227-230: an invalid notch cutoff disables the notch *)
notchHzMutGt(hz, cutoff) == IF cutoff > hz THEN 0 ELSE hz
fixNotchHz(hz, cutoff) == IF cutoff >= hz THEN 0 ELSE hz

(* the body of the loop over the PID profiles, for one profile *)
fixPidProfile(p, e) ==
    LET lp1 == adjustFilterLimit(p.dterm_lowpass_hz, FILTER_FREQUENCY_MAX)
        lp2 == adjustFilterLimit(p.dterm_lowpass2_hz, FILTER_FREQUENCY_MAX)
        nhz == adjustFilterLimit(p.dterm_notch_hz, FILTER_FREQUENCY_MAX)
        nco == adjustFilterLimit(p.dterm_notch_cutoff, 0)
    IN [p EXCEPT
          !.dterm_lowpass_hz = lp1,
          !.dterm_lowpass2_hz = lp2,
          !.dterm_notch_cutoff = nco,
          !.dterm_notch_hz = fixNotchHz(nhz, nco),
          !.dyn_lpf_dterm_min_hz =
              IF defined(e, "USE_DYN_LPF") /\ @ > p.dyn_lpf_dterm_max_hz THEN 0 ELSE @,
          !.motor_output_limit = IF @ > 100 \/ @ = 0 THEN 100 ELSE @,
          !.auto_profile_cell_count =
              IF @ > MAX_AUTO_DETECT_CELL_COUNT \/ @ < AUTO_PROFILE_CELL_COUNT_CHANGE
              THEN AUTO_PROFILE_CELL_COUNT_STAY ELSE @,
          !.d_min = [axis \in 0..FD_YAW |-> IF @[axis] >= p.D[axis] THEN 0 ELSE @[axis]]]

(* lines 205-217: GPS over MSP needs no serial port, GPS needs a provider *)
fixGps(c, e) ==
    LET gpsSerial == defined(e, "USE_GPS") /\ c.gpsSerialPort
        c1 == IF defined(e, "USE_GPS") /\ c.gps_provider = "GPS_MSP" /\ gpsSerial
              THEN [c EXCEPT !.gpsSerialPort = FALSE] ELSE c
    IN IF (defined(e, "USE_GPS") => (c.gps_provider # "GPS_MSP" /\ ~gpsSerial))
       THEN featureDisable(c1, {"GPS"}) ELSE c1

(* lines 219-253 *)
fixPidProfiles(c, e) ==
    [c EXCEPT !.pidProfiles = [i \in 0..(PID_PROFILE_COUNT - 1) |-> fixPidProfile(@[i], e)]]

(* lines 255-265 *)
fixMotorConfig(c) ==
    LET c1 == IF c.motorPwmProtocol = "BRUSHED"
              THEN [featureDisable(c, {"3D"}) EXCEPT
                       !.mincommand = IF @ < 1000 THEN 1000 ELSE @]
              ELSE c
    IN IF c1.motorPwmProtocol = "STANDARD" /\ c1.motorPwmRate > BRUSHLESS_MOTORS_PWM_RATE
       THEN [c1 EXCEPT !.motorPwmRate = BRUSHLESS_MOTORS_PWM_RATE] ELSE c1

-----------------------------------------------------------------------------
(* validateAndFixGyroConfig, the configuration store's part *)

(* lines 554-582: dynamic filter, gyro filter limits, notch and dyn-lpf repair *)
fixGyroFilters(c, e) ==
    LET c1 == IF defined(e, "USE_GYRO_DATA_ANALYSE")
                 /\ e.targetLooptime > DYNAMIC_FILTER_MAX_SUPPORTED_LOOP_TIME
              THEN featureDisable(c, {"DYNAMIC_FILTER"}) ELSE c
        hz1 == adjustFilterLimit(c.gyro_soft_notch_hz_1, FILTER_FREQUENCY_MAX)
        co1 == adjustFilterLimit(c.gyro_soft_notch_cutoff_1, 0)
        hz2 == adjustFilterLimit(c.gyro_soft_notch_hz_2, FILTER_FREQUENCY_MAX)
        co2 == adjustFilterLimit(c.gyro_soft_notch_cutoff_2, 0)
    IN [c1 EXCEPT
          !.gyro_lowpass_hz = adjustFilterLimit(@, FILTER_FREQUENCY_MAX),
          !.gyro_lowpass2_hz = adjustFilterLimit(@, FILTER_FREQUENCY_MAX),
          !.gyro_soft_notch_cutoff_1 = co1,
          !.gyro_soft_notch_cutoff_2 = co2,
          !.gyro_soft_notch_hz_1 = IF co1 >= hz1 THEN 0 ELSE hz1,
          !.gyro_soft_notch_hz_2 = IF co2 >= hz2 THEN 0 ELSE hz2,
          !.dyn_lpf_gyro_min_hz =
              IF defined(e, "USE_DYN_LPF") /\ @ > c.dyn_lpf_gyro_max_hz THEN 0 ELSE @]

(* lines 584-591: 1 kHz sampling runs the PID loop 1:1; F1 targets need sync >= 3 *)
fixGyroDenoms(c, e) ==
    LET c1 == IF c.gyro_hardware_lpf = "GYRO_HARDWARE_LPF_1KHZ_SAMPLE"
              THEN [c EXCEPT !.pid_process_denom = 1, !.gyro_sync_denom = 1] ELSE c
    IN IF defined(e, "STM32F1")
       THEN [c1 EXCEPT !.gyro_sync_denom = MAX(@, 3)] ELSE c1

(* lines 593-614: 1 / samplingTime, in Hz *)
samplingRate(c, e) ==
    IF c.gyro_hardware_lpf = "GYRO_HARDWARE_LPF_1KHZ_SAMPLE"
    THEN (IF e.sensor = "ICM_20649_SPI" THEN 1100 ELSE 1000)
    ELSE CASE e.sensor = "ICM_20649_SPI" -> 9000
           [] e.sensor = "BMI_160_SPI" -> 3200
           [] OTHER -> 8000

(* lines 617-640: 1 / motorUpdateRestriction, in Hz *)
motorUpdateRate(c, e) ==
    CASE c.motorPwmProtocol = "STANDARD" -> BRUSHLESS_MOTORS_PWM_RATE
      [] c.motorPwmProtocol = "ONESHOT125" -> 2000
      [] c.motorPwmProtocol = "ONESHOT42" -> 10000
      [] c.motorPwmProtocol = "DSHOT150" /\ defined(e, "USE_DSHOT") -> 4000
      [] c.motorPwmProtocol = "DSHOT300" /\ defined(e, "USE_DSHOT") -> 10000
      [] OTHER -> 32000

(* line 651: motorUpdateRestriction / (samplingTime * gyro_sync_denom) converted to
   the int parameter of constrain().  With gyro_sync_denom = 0 the quotient is
   +infinity, whose conversion to int is undefined: the build decides (floatInfToInt). *)
minPidProcessDenom(c, e) ==
    LET quotient == IF c.gyro_sync_denom = 0 THEN e.floatInfToInt
                    ELSE samplingRate(c, e) \div (motorUpdateRate(c, e) * c.gyro_sync_denom)
    IN constrain(quotient, 1, MAX_PID_PROCESS_DENOM)

(* lines 649-653: the synced branch *)
raisePidProcessDenomMutAssign(c, e) ==
    IF c.gyro_sync_denom * c.pid_process_denom * motorUpdateRate(c, e) < samplingRate(c, e)
    THEN [c EXCEPT !.pid_process_denom = minPidProcessDenom(c, e)]
    ELSE c
raisePidProcessDenom(c, e) ==
    IF c.gyro_sync_denom * c.pid_process_denom * motorUpdateRate(c, e) < samplingRate(c, e)
    THEN [c EXCEPT !.pid_process_denom = MAX(@, minPidProcessDenom(c, e))]
    ELSE c

(* lines 642-654 *)
fixMotorTiming(c, e) ==
    IF c.useUnsyncedPwm
    THEN IF pwmProtocolOrdinal(c.motorPwmProtocol) <= pwmProtocolOrdinal("BRUSHED")
            /\ c.motorPwmProtocol # "STANDARD"
         THEN [c EXCEPT !.motorPwmRate = MIN(@, motorUpdateRate(c, e))]
         ELSE c
    ELSE raisePidProcessDenom(c, e)

(* lines 656-668 *)
fixBlackboxDevice(c, e) ==
    IF defined(e, "USE_BLACKBOX")
       /\ (   (~defined(e, "USE_FLASHFS") /\ c.blackbox_device = 1)
           \/ (~defined(e, "USE_SDCARD") /\ c.blackbox_device = 2))
    THEN [c EXCEPT !.blackbox_device = 0] ELSE c

(* lines 670-677: the two index checks *)
fixProfileIndices(c) ==
    [c EXCEPT
       !.activeRateProfile = IF @ >= CONTROL_RATE_PROFILE_COUNT THEN 0 ELSE @,
       !.pidProfileIndex = IF @ >= PID_PROFILE_COUNT THEN 0 ELSE @]

validateAndFixGyroConfigStore(c, e) ==
    fixProfileIndices(fixBlackboxDevice(fixMotorTiming(fixGyroDenoms(fixGyroFilters(c, e), e), e), e))

-----------------------------------------------------------------------------
(* validateAndFixConfig after the call of validateAndFixGyroConfig *)

(* lines 275-299: a default receiver when none is set, then one receiver only *)
rxExclusivityMutNoSpi(c, e) ==
    LET on(x, f) == featureIsEnabled(x, f)
        known == RX_FEATURES \ {"RX_SPI"}
        c1 == IF ~(\E f \in RX_FEATURES : on(c, f))
              THEN featureEnable(c, {e.DEFAULT_RX_FEATURE}) ELSE c
        c2 == IF on(c1, "RX_PPM") THEN featureDisable(c1, known \ {"RX_PPM"}) ELSE c1
        c3 == IF on(c2, "RX_MSP") THEN featureDisable(c2, known \ {"RX_MSP"}) ELSE c2
        c4 == IF on(c3, "RX_SERIAL") THEN featureDisable(c3, known \ {"RX_SERIAL"}) ELSE c3
    IN IF on(c4, "RX_PARALLEL_PWM")
       THEN featureDisable(c4, known \ {"RX_PARALLEL_PWM"}) ELSE c4
fixRxFeatures(c, e) ==
    LET on(x, f) == featureIsEnabled(x, f)
        c1 == IF ~(\E f \in RX_FEATURES : on(c, f))
              THEN featureEnable(c, {e.DEFAULT_RX_FEATURE}) ELSE c
        c2 == IF on(c1, "RX_PPM") THEN featureDisable(c1, RX_FEATURES \ {"RX_PPM"}) ELSE c1
        c3 == IF on(c2, "RX_MSP") THEN featureDisable(c2, RX_FEATURES \ {"RX_MSP"}) ELSE c2
        c4 == IF on(c3, "RX_SERIAL") THEN featureDisable(c3, RX_FEATURES \ {"RX_SERIAL"}) ELSE c3
        c5 == IF defined(e, "USE_RX_SPI") /\ on(c4, "RX_SPI")
              THEN featureDisable(c4, RX_FEATURES \ {"RX_SPI"}) ELSE c4
    IN IF on(c5, "RX_PARALLEL_PWM")
       THEN featureDisable(c5, RX_FEATURES \ {"RX_PARALLEL_PWM"}) ELSE c5

(* lines 301-315 *)
fixSoftSpi(c, e) ==
    IF defined(e, "USE_SOFTSPI") /\ featureIsEnabled(c, "SOFTSPI")
    THEN LET c1 == [featureDisable(c, {"RX_PPM", "RX_PARALLEL_PWM", "SOFTSERIAL"})
                       EXCEPT !.voltageMeterSource = "VOLTAGE_METER_NONE"]
         IN IF defined(e, "STM32F10X")
            THEN [featureDisable(c1, {"LED_STRIP", "RSSI_ADC"}) EXCEPT
                     !.currentMeterSource =
                         IF @ = "CURRENT_METER_ADC" THEN "CURRENT_METER_NONE" ELSE @]
            ELSE c1
    ELSE c

(* lines 317-329 *)
fixRssi(c, e) ==
    IF defined(e, "USE_ADC") /\ featureIsEnabled(c, "RSSI_ADC")
    THEN [c EXCEPT !.rssi_channel = 0, !.rssi_src_frame_errors = FALSE]
    ELSE IF c.rssi_channel # 0
            \/ (   (defined(e, "USE_PWM") \/ defined(e, "USE_PPM"))
                /\ (featureIsEnabled(c, "RX_PPM") \/ featureIsEnabled(c, "RX_PARALLEL_PWM")))
         THEN [c EXCEPT !.rssi_src_frame_errors = FALSE]
         ELSE c

(* lines 331-356: feedforward and throttle boost need an interpolated channel *)
fixFeedForward(c, e) ==
    LET ch == c.rcInterpolationChannels
        noRP == ~c.rcSmoothingIsEnabled \/ ch = "INTERPOLATION_CHANNELS_T"
        noY == ~c.rcSmoothingIsEnabled
               \/ (ch # "INTERPOLATION_CHANNELS_RPY" /\ ch # "INTERPOLATION_CHANNELS_RPYT")
        noT == defined(e, "USE_THROTTLE_BOOST")
               /\ (   ~c.rcSmoothingIsEnabled
                   \/ ~(   ch = "INTERPOLATION_CHANNELS_RPYT"
                        \/ ch = "INTERPOLATION_CHANNELS_T"
                        \/ ch = "INTERPOLATION_CHANNELS_RPT"))
    IN [c EXCEPT !.pidProfiles = [i \in 0..(PID_PROFILE_COUNT - 1) |->
          [@[i] EXCEPT
              !.F = [axis \in 0..FD_YAW |->
                        IF (axis < FD_YAW /\ noRP) \/ (axis = FD_YAW /\ noY) THEN 0 ELSE @[axis]],
              !.throttle_boost = IF noT THEN 0 ELSE @]]]

(* lines 358-374 *)
fixGpsRescue(c, e) ==
    IF featureIsEnabled(c, "3D") \/ ~featureIsEnabled(c, "GPS")
       \/ ~defined(e, "USE_GPS") \/ ~defined(e, "USE_GPS_RESCUE")
    THEN [c EXCEPT
            !.failsafe_procedure =
                IF defined(e, "USE_GPS_RESCUE") /\ @ = "FAILSAFE_PROCEDURE_GPS_RESCUE"
                THEN "FAILSAFE_PROCEDURE_DROP_IT" ELSE @,
            !.gpsRescueModeCondition = FALSE]
    ELSE c

(* lines 376-380 *)
fixEscSensor(c, e) ==
    IF defined(e, "USE_ESC_SENSOR") /\ ~c.escSensorSerialPort
    THEN featureDisable(c, {"ESC_SENSOR"}) ELSE c

(* lines 392-397 *)
fixDshotBitbang(c, e) ==
    IF defined(e, "USE_DSHOT_TELEMETRY") /\ defined(e, "USE_DSHOT_BITBANG")
       /\ c.motorPwmProtocol = "PROSHOT1000" /\ c.useDshotTelemetry
       /\ c.useDshotBitbang = "DSHOT_BITBANG_ON"
    THEN [c EXCEPT !.useDshotBitbang = "DSHOT_BITBANG_AUTO"] ELSE c

(* lines 402-468: the features of drivers that are not compiled in *)
unsupportedFeatures(e) ==
    UNION {
        IF defined(e, "USE_PPM") THEN {} ELSE {"RX_PPM"},
        IF defined(e, "USE_SERIAL_RX") THEN {} ELSE {"RX_SERIAL"},
        IF defined(e, "USE_SOFTSERIAL1") \/ defined(e, "USE_SOFTSERIAL2") THEN {} ELSE {"SOFTSERIAL"},
        IF defined(e, "USE_RANGEFINDER") THEN {} ELSE {"RANGEFINDER"},
        IF defined(e, "USE_TELEMETRY") THEN {} ELSE {"TELEMETRY"},
        IF defined(e, "USE_PWM") THEN {} ELSE {"RX_PARALLEL_PWM"},
        IF defined(e, "USE_RX_MSP") THEN {} ELSE {"RX_MSP"},
        IF defined(e, "USE_LED_STRIP") THEN {} ELSE {"LED_STRIP"},
        IF defined(e, "USE_DASHBOARD") THEN {} ELSE {"DASHBOARD"},
        IF defined(e, "USE_OSD") THEN {} ELSE {"OSD"},
        IF defined(e, "USE_SERVOS") THEN {} ELSE {"SERVO_TILT", "CHANNEL_FORWARDING"},
        IF defined(e, "USE_TRANSPONDER") THEN {} ELSE {"TRANSPONDER"},
        IF defined(e, "USE_RX_SPI") THEN {} ELSE {"RX_SPI"},
        IF defined(e, "USE_SOFTSPI") THEN {} ELSE {"SOFTSPI"},
        IF defined(e, "USE_ESC_SENSOR") THEN {} ELSE {"ESC_SENSOR"},
        IF defined(e, "USE_GYRO_DATA_ANALYSE") THEN {} ELSE {"DYNAMIC_FILTER"},
        IF defined(e, "USE_ADC") THEN {} ELSE {"RSSI_ADC"} }

pruneFeatures(c, e) == featureDisable(c, unsupportedFeatures(e))

(* lines 493-518 *)
fixDshot(c, e) ==
    IF defined(e, "USE_DSHOT")
    THEN LET usingDshotProtocol ==
                 c.motorPwmProtocol \in {"PROSHOT1000", "DSHOT600", "DSHOT300", "DSHOT150"}
             c1 == IF usingDshotProtocol THEN [c EXCEPT !.useUnsyncedPwm = FALSE] ELSE c
         IN IF defined(e, "USE_DSHOT_TELEMETRY")
               /\ (   ~usingDshotProtocol
                   \/ (c1.useDshotBitbang = "DSHOT_BITBANG_OFF" /\ c1.useBurstDshot)
                   \/ c1.schedulerOptimizeRate = "SCHEDULER_OPTIMIZE_RATE_OFF")
               /\ c1.useDshotTelemetry
            THEN [c1 EXCEPT !.useDshotTelemetry = FALSE] ELSE c1
    ELSE c

(* lines 530-545 *)
fixVtx(c, e) ==
    IF defined(e, "USE_VTX_COMMON") /\ defined(e, "USE_VTX_TABLE")
    THEN LET c1 == IF c.vtx_channel > c.vtxTable_channels
                   THEN [c EXCEPT !.vtx_channel = 0,
                                  !.vtx_freq = IF c.vtx_band > 0 THEN 0 ELSE @]
                   ELSE c
             c2 == IF c1.vtx_band > c1.vtxTable_bands
                   THEN [c1 EXCEPT !.vtx_band = 0, !.vtx_freq = 0] ELSE c1
         IN IF c2.vtx_power > c2.vtxTable_powerLevels
            THEN [c2 EXCEPT !.vtx_power = 0] ELSE c2
    ELSE c

(* lines 182-265, the configuration store before validateAndFixGyroConfig *)
validateBeforeGyro(c, e) == fixMotorConfig(fixPidProfiles(fixGps(c, e), e))

(* lines 275-550, the configuration store after validateAndFixGyroConfig *)
validateAfterGyro(c, e) ==
    fixVtx(fixDshot(pruneFeatures(fixDshotBitbang(fixEscSensor(fixGpsRescue(
        fixFeedForward(fixRssi(fixSoftSpi(fixRxFeatures(c, e), e), e), e), e), e), e), e), e), e)

-----------------------------------------------------------------------------
(* The program state as one record, so that operations compose. *)

St == [cfg |-> cfg, eeprom |-> eeprom, currentPidProfile |-> currentPidProfile,
       currentControlRateProfile |-> currentControlRateProfile,
       configIsDirty |-> configIsDirty, rebootRequired |-> rebootRequired,
       suspendCount |-> suspendCount, calls |-> calls, hung |-> hung]

(* a call of a collaborator outside config.c, with its argument *)
call(s, fn, arg) == [s EXCEPT !.calls = Append(@, [fn |-> fn, arg |-> arg])]

loadPidProfile(s) == [s EXCEPT !.currentPidProfile = s.cfg.pidProfileIndex]
loadControlRateProfile(s) == [s EXCEPT !.currentControlRateProfile = s.cfg.activeRateProfile]

suspendRxPwmPpmSignal(s) == [s EXCEPT !.suspendCount = @ + 1]
resumeRxPwmPpmSignal(s) == [s EXCEPT !.suspendCount = @ - 1]

validateAndFixGyroConfig(s, e) ==
    loadPidProfile(loadControlRateProfile(
        [s EXCEPT !.cfg = validateAndFixGyroConfigStore(@, e)]))

validateAndFixConfig(s, e) ==
    LET s1 == [s EXCEPT !.cfg = validateBeforeGyro(@, e)]
        s2 == validateAndFixGyroConfig(s1, e)
    IN [s2 EXCEPT !.cfg = validateAfterGyro(@, e)]

(* setAccelerationTrims(&accelerometerConfigMutable()->accZero): the callee is handed
   a writable pointer into the store and keeps it as the trims in use; it writes
   nothing through it *)
setAccelerationTrims(s) == call(s, "setAccelerationTrims", s.cfg.accZero)

(* activation that also zeroes the trims it was handed a writable pointer to *)
activateConfigMutWritesTrims(s, e) ==
    [call(loadControlRateProfile(loadPidProfile(s)), "pidInit", s.cfg.pidProfileIndex)
        EXCEPT !.cfg.accZero = 0]

activateConfig(s, e) ==
    LET c == s.cfg
        optimize == c.schedulerOptimizeRate = "SCHEDULER_OPTIMIZE_RATE_ON"
                    \/ (c.schedulerOptimizeRate = "SCHEDULER_OPTIMIZE_RATE_AUTO"
                        /\ c.useDshotTelemetry)
        s1 == call(s, "schedulerOptimizeRate", IF optimize THEN 1 ELSE 0)
        s2 == loadControlRateProfile(loadPidProfile(s1))
        s3 == call(call(s2, "initRcProcessing", 0), "activeAdjustmentRangeReset", 0)
        s4 == call(s3, "pidInit", s3.currentPidProfile)
        s5 == call(call(s4, "rcControlsInit", 0), "failsafeReset", 0)
        s6 == IF defined(e, "USE_ACC")
              THEN call(setAccelerationTrims(s5), "accInitFilters", 0) ELSE s5
        s7 == call(s6, "imuConfigure", 0)
    IN IF defined(e, "USE_LED_STRIP_STATUS_MODE")
       THEN call(s7, "reevaluateLedConfig", 0) ELSE s7

-----------------------------------------------------------------------------
(* Compiled-in defaults (pgResetAll) and the storage engine. *)

DefaultPidProfile ==
    [dterm_lowpass_hz |-> 150, dterm_lowpass2_hz |-> 150,
     dterm_notch_hz |-> 0, dterm_notch_cutoff |-> 0,
     dyn_lpf_dterm_min_hz |-> 70, dyn_lpf_dterm_max_hz |-> 170,
     motor_output_limit |-> 100,
     auto_profile_cell_count |-> AUTO_PROFILE_CELL_COUNT_STAY,
     d_min |-> [axis \in 0..FD_YAW |-> IF axis = FD_YAW THEN 0 ELSE 20],
     D |-> [axis \in 0..FD_YAW |-> IF axis = FD_YAW THEN 0 ELSE 35],
     F |-> [axis \in 0..FD_YAW |-> 60],
     throttle_boost |-> 5]

(* PG_RESET_TEMPLATE(systemConfig_t, ...), the fields config.c uses *)
systemConfigReset ==
    [pidProfileIndex |-> 0, activeRateProfile |-> 0,
     configurationState |-> "CONFIGURATION_STATE_DEFAULTS_BARE",
     schedulerOptimizeRate |-> "SCHEDULER_OPTIMIZE_RATE_AUTO"]

DefaultConfig(e) ==
    [features |-> {e.DEFAULT_RX_FEATURE, "DYNAMIC_FILTER"},
     pidProfiles |-> [i \in 0..(PID_PROFILE_COUNT - 1) |-> DefaultPidProfile],
     motorPwmProtocol |-> "ONESHOT125", mincommand |-> 1000, motorPwmRate |-> 480,
     useUnsyncedPwm |-> FALSE, useDshotTelemetry |-> FALSE,
     useDshotBitbang |-> "DSHOT_BITBANG_AUTO", useBurstDshot |-> FALSE,
     gyro_lowpass_hz |-> 200, gyro_lowpass2_hz |-> 250,
     gyro_soft_notch_hz_1 |-> 0, gyro_soft_notch_cutoff_1 |-> 0,
     gyro_soft_notch_hz_2 |-> 0, gyro_soft_notch_cutoff_2 |-> 0,
     dyn_lpf_gyro_min_hz |-> 200, dyn_lpf_gyro_max_hz |-> 500,
     gyro_hardware_lpf |-> "GYRO_HARDWARE_LPF_NORMAL",
     gyro_sync_denom |-> 1, pid_process_denom |-> 4,
     blackbox_device |-> 1, accZero |-> 0,
     activeRateProfile |-> systemConfigReset.activeRateProfile,
     pidProfileIndex |-> systemConfigReset.pidProfileIndex,
     configurationState |-> systemConfigReset.configurationState,
     schedulerOptimizeRate |-> systemConfigReset.schedulerOptimizeRate,
     rssi_channel |-> 0, rssi_src_frame_errors |-> FALSE,
     rcSmoothingIsEnabled |-> TRUE,
     rcInterpolationChannels |-> "INTERPOLATION_CHANNELS_RPYT",
     failsafe_procedure |-> "FAILSAFE_PROCEDURE_DROP_IT",
     gpsRescueModeCondition |-> FALSE,
     gps_provider |-> "GPS_NMEA", gpsSerialPort |-> FALSE,
     escSensorSerialPort |-> FALSE,
     voltageMeterSource |-> "VOLTAGE_METER_ADC",
     currentMeterSource |-> "CURRENT_METER_ADC",
     vtx_band |-> 0, vtx_channel |-> 0, vtx_power |-> 0, vtx_freq |-> 0,
     vtxTable_bands |-> 5, vtxTable_channels |-> 8, vtxTable_powerLevels |-> 3]

(* resetConfig: pgResetAll(); no modelled build defines USE_TARGET_CONFIG *)
resetConfig(s, e) == [s EXCEPT !.cfg = DefaultConfig(e)]

(* resetConfigToCustomDefaults(), when it succeeds: the defaults with the board's
   own settings on top *)
resetConfigToCustomDefaults(s, e) ==
    [s EXCEPT !.cfg = [DefaultConfig(e) EXCEPT !.motorPwmProtocol = "DSHOT600"]]

isEEPROMStructureValid(s) == s.eeprom.valid

(* loadEEPROM: the stored groups when the storage is readable; otherwise the groups
   are left as they are or reset to their defaults (resets) and the load fails *)
loadEEPROM(s, e, resets) ==
    LET s1 == call(s, "loadEEPROM", s.suspendCount)
    IN IF s.eeprom.valid THEN [s1 EXCEPT !.cfg = s.eeprom.cfg]
       ELSE IF resets THEN [s1 EXCEPT !.cfg = DefaultConfig(e)]
       ELSE s1

writeConfigToEEPROM(s) ==
    [call(s, "writeConfigToEEPROM", s.suspendCount)
        EXCEPT !.eeprom = [valid |-> TRUE, cfg |-> s.cfg]]

-----------------------------------------------------------------------------
(* Persistence controller *)

(* readEEPROM that also marks the configuration as saved *)
readEEPROMMutClearsDirty(s, e, resets) ==
    [resumeRxPwmPpmSignal(activateConfig(validateAndFixConfig(
        loadEEPROM(suspendRxPwmPpmSignal(s), e, resets), e), e))
     EXCEPT !.configIsDirty = FALSE]
readEEPROMMutEarlyReturn(s, e, resets) ==
    LET s1 == loadEEPROM(suspendRxPwmPpmSignal(s), e, resets)
    IN IF ~s.eeprom.valid THEN s1
       ELSE resumeRxPwmPpmSignal(activateConfig(validateAndFixConfig(s1, e), e))
readEEPROM(s, e, resets) ==
    resumeRxPwmPpmSignal(activateConfig(validateAndFixConfig(
        loadEEPROM(suspendRxPwmPpmSignal(s), e, resets), e), e))

(* the value readEEPROM returns: loadEEPROM's *)
readEEPROMSuccess(s) == s.eeprom.valid

writeUnmodifiedConfigToEEPROM(s, e) ==
    [resumeRxPwmPpmSignal(writeConfigToEEPROM(suspendRxPwmPpmSignal(
        validateAndFixConfig(s, e)))) EXCEPT !.configIsDirty = FALSE]

writeEEPROM(s, e) ==
    writeUnmodifiedConfigToEEPROM(
        [s EXCEPT !.cfg.configurationState = "CONFIGURATION_STATE_CONFIGURED"], e)

writeEEPROMWithFeatures(s, e, features) ==
    writeEEPROM([s EXCEPT !.cfg = featureEnable(featureDisableAll(@), features)], e)

(* resetEEPROM returns false exactly when the custom defaults cannot be applied *)
resetEEPROMReturns(e, useCustomDefaults, customOk) ==
    ~(defined(e, "USE_CUSTOM_DEFAULTS") /\ useCustomDefaults /\ ~customOk)

resetEEPROM(s, e, useCustomDefaults, customOk) ==
    IF defined(e, "USE_CUSTOM_DEFAULTS") /\ useCustomDefaults
    THEN IF ~customOk THEN s
         ELSE writeUnmodifiedConfigToEEPROM(resetConfigToCustomDefaults(s, e), e)
    ELSE writeUnmodifiedConfigToEEPROM(resetConfig(s, e), e)

ensureEEPROMStructureIsValid(s, e) ==
    IF isEEPROMStructureValid(s) THEN s ELSE resetEEPROM(s, e, FALSE, FALSE)

saveConfigAndNotify(s, e) ==
    call(readEEPROM(writeEEPROM(s, e), e, FALSE), "beeperConfirmationBeeps", 1)

setConfigDirty(s) == [s EXCEPT !.configIsDirty = TRUE]

setRebootRequired(s) ==
    call([s EXCEPT !.rebootRequired = TRUE], "setArmingDisabled", 0)

-----------------------------------------------------------------------------
(* Profile manager *)

changePidProfileMutNoCheck(s, pidProfileIndex) ==
    call(call(call(loadPidProfile([s EXCEPT !.cfg.pidProfileIndex = pidProfileIndex]),
                   "pidInit", pidProfileIndex), "initEscEndpoints", 0),
         "beeperConfirmationBeeps", pidProfileIndex + 1)
(* changePidProfile returning at once on an index past the array, without the
   confirmation signal *)
changePidProfileMutSilent(s, pidProfileIndex) ==
    IF pidProfileIndex < PID_PROFILE_COUNT
    THEN call(call(call(loadPidProfile([s EXCEPT !.cfg.pidProfileIndex = pidProfileIndex]),
                        "pidInit", pidProfileIndex), "initEscEndpoints", 0),
              "beeperConfirmationBeeps", pidProfileIndex + 1)
    ELSE s
changePidProfile(s, pidProfileIndex) ==
    LET s1 == IF pidProfileIndex < PID_PROFILE_COUNT
              THEN call(call(loadPidProfile([s EXCEPT !.cfg.pidProfileIndex = pidProfileIndex]),
                             "pidInit", pidProfileIndex), "initEscEndpoints", 0)
              ELSE s
    IN call(s1, "beeperConfirmationBeeps", pidProfileIndex + 1)

(* the scan with the stay branch ending the loop as the exact-match branch does:
   the first stay-tagged slot met wins over an exact match further on *)
RECURSIVE scanProfilesMutFirstStay(_, _, _, _, _)
scanProfilesMutFirstStay(c, cellCount, profileIndex, matchingProfileIndex, visited) ==
    IF profileIndex = c.pidProfileIndex
    THEN [matchingProfileIndex |-> matchingProfileIndex, visited |-> visited, exits |-> TRUE]
    ELSE IF visited >= PID_PROFILE_COUNT
    THEN [matchingProfileIndex |-> matchingProfileIndex, visited |-> visited, exits |-> FALSE]
    ELSE IF c.pidProfiles[profileIndex].auto_profile_cell_count
                \in {cellCount, AUTO_PROFILE_CELL_COUNT_STAY}
    THEN [matchingProfileIndex |-> profileIndex, visited |-> visited + 1, exits |-> TRUE]
    ELSE scanProfilesMutFirstStay(c, cellCount, (profileIndex + 1) % PID_PROFILE_COUNT,
             matchingProfileIndex, visited + 1)

(* the scan without the matchingProfileIndex < 0 test of line 782: every stay-tagged
   slot overwrites the fallback, so the last one met wins *)
RECURSIVE scanProfilesMutLastStay(_, _, _, _, _)
scanProfilesMutLastStay(c, cellCount, profileIndex, matchingProfileIndex, visited) ==
    IF profileIndex = c.pidProfileIndex
    THEN [matchingProfileIndex |-> matchingProfileIndex, visited |-> visited, exits |-> TRUE]
    ELSE IF visited >= PID_PROFILE_COUNT
    THEN [matchingProfileIndex |-> matchingProfileIndex, visited |-> visited, exits |-> FALSE]
    ELSE IF c.pidProfiles[profileIndex].auto_profile_cell_count = cellCount
    THEN [matchingProfileIndex |-> profileIndex, visited |-> visited + 1, exits |-> TRUE]
    ELSE scanProfilesMutLastStay(c, cellCount, (profileIndex + 1) % PID_PROFILE_COUNT,
             IF c.pidProfiles[profileIndex].auto_profile_cell_count
                    = AUTO_PROFILE_CELL_COUNT_STAY
             THEN profileIndex ELSE matchingProfileIndex,
             visited + 1)

(* lines 775-787: the circular scan from profileIndex on.  exits is FALSE when the
   loop cannot end: after PID_PROFILE_COUNT iterations every slot has been compared
   and the loop variable, always below PID_PROFILE_COUNT, has not met pidProfileIndex. *)
RECURSIVE scanProfiles(_, _, _, _, _)
scanProfiles(c, cellCount, profileIndex, matchingProfileIndex, visited) ==
    IF profileIndex = c.pidProfileIndex
    THEN [matchingProfileIndex |-> matchingProfileIndex, visited |-> visited, exits |-> TRUE]
    ELSE IF visited >= PID_PROFILE_COUNT
    THEN [matchingProfileIndex |-> matchingProfileIndex, visited |-> visited, exits |-> FALSE]
    ELSE IF c.pidProfiles[profileIndex].auto_profile_cell_count = cellCount
    THEN [matchingProfileIndex |-> profileIndex, visited |-> visited + 1, exits |-> TRUE]
    ELSE scanProfiles(c, cellCount, (profileIndex + 1) % PID_PROFILE_COUNT,
             IF matchingProfileIndex < 0
                /\ c.pidProfiles[profileIndex].auto_profile_cell_count
                       = AUTO_PROFILE_CELL_COUNT_STAY
             THEN profileIndex ELSE matchingProfileIndex,
             visited + 1)

(* the tag read through currentPidProfile; a pointer that is NULL or past the array
   reads whatever is there (wild) *)
currentProfileCellCount(s, wild) ==
    IF s.currentPidProfile \in 0..(PID_PROFILE_COUNT - 1)
    THEN s.cfg.pidProfiles[s.currentPidProfile].auto_profile_cell_count
    ELSE wild

profileScan(s, cellCount) ==
    scanProfiles(s.cfg, cellCount, (s.cfg.pidProfileIndex + 1) % PID_PROFILE_COUNT, -1, 0)

changePidProfileFromCellCount(s, cellCount, wild) ==
    IF currentProfileCellCount(s, wild) = cellCount
       \/ currentProfileCellCount(s, wild) = AUTO_PROFILE_CELL_COUNT_STAY
    THEN s
    ELSE LET r == profileScan(s, cellCount)
         IN IF ~r.exits THEN [s EXCEPT !.hung = TRUE]
            ELSE IF r.matchingProfileIndex >= 0
            THEN changePidProfile(s, r.matchingProfileIndex)
            ELSE s

-----------------------------------------------------------------------------
(* Builds and hardware *)

RX_DEFS == {"USE_PPM", "USE_PWM", "USE_SERIAL_RX", "USE_RX_MSP", "USE_RX_SPI"}

CommonDefs ==
    {"USE_SOFTSERIAL1", "USE_RANGEFINDER", "USE_TELEMETRY", "USE_LED_STRIP",
     "USE_DASHBOARD", "USE_OSD", "USE_SERVOS", "USE_TRANSPONDER", "USE_ESC_SENSOR",
     "USE_GYRO_DATA_ANALYSE", "USE_ADC", "USE_GPS", "USE_GPS_RESCUE", "USE_DYN_LPF",
     "USE_THROTTLE_BOOST", "USE_DSHOT", "USE_DSHOT_TELEMETRY", "USE_DSHOT_BITBANG",
     "USE_BLACKBOX", "USE_FLASHFS", "USE_SDCARD", "USE_VTX_COMMON", "USE_VTX_TABLE",
     "USE_ACC", "USE_LED_STRIP_STATUS_MODE", "USE_CUSTOM_DEFAULTS"}

Build(defs, defaultRx) ==
    [defs |-> defs, DEFAULT_RX_FEATURE |-> defaultRx, floatInfToInt |-> 2147483647,
     sensor |-> "MPU_60x0", targetLooptime |-> 125]

FullBuild == Build(CommonDefs \cup RX_DEFS, "RX_SERIAL")
NoPpmBuild == Build(CommonDefs \cup (RX_DEFS \ {"USE_PPM"}), "RX_SERIAL")

-----------------------------------------------------------------------------
(* Operations as actions *)

Begin == [St EXCEPT !.calls = <<>>]

Step(name, arg, mask, ok, s) ==
    /\ ~hung
    /\ cfg' = s.cfg
    /\ eeprom' = s.eeprom
    /\ currentPidProfile' = s.currentPidProfile
    /\ currentControlRateProfile' = s.currentControlRateProfile
    /\ configIsDirty' = s.configIsDirty
    /\ rebootRequired' = s.rebootRequired
    /\ suspendCount' = s.suspendCount
    /\ calls' = s.calls
    /\ hung' = s.hung
    /\ lastOp' = [name |-> name, arg |-> arg, mask |-> mask, ok |-> ok]
    /\ entry' = Begin
    /\ UNCHANGED env

InitRest ==
    /\ currentPidProfile = NULL
    /\ currentControlRateProfile = NULL
    /\ configIsDirty = FALSE
    /\ rebootRequired = FALSE
    /\ suspendCount = 0
    /\ calls = <<>>
    /\ hung = FALSE
    /\ lastOp = [name |-> "init", arg |-> 0, mask |-> {}, ok |-> TRUE]
    /\ entry = St

ValidateAndFixConfig ==
    Step("validateAndFixConfig", 0, {}, TRUE, validateAndFixConfig(Begin, env))

ValidateAndFixGyroConfig ==
    Step("validateAndFixGyroConfig", 0, {}, TRUE, validateAndFixGyroConfig(Begin, env))

ReadEEPROM ==
    \E resets \in BOOLEAN :
        Step("readEEPROM", 0, {}, readEEPROMSuccess(St), readEEPROM(Begin, env, resets))

WriteUnmodifiedConfigToEEPROM ==
    Step("writeUnmodifiedConfigToEEPROM", 0, {}, TRUE,
         writeUnmodifiedConfigToEEPROM(Begin, env))

WriteEEPROM == Step("writeEEPROM", 0, {}, TRUE, writeEEPROM(Begin, env))

FeatureMasks == {{"RX_MSP", "RX_SERIAL", "GPS"}}

WriteEEPROMWithFeatures ==
    \E features \in FeatureMasks :
        Step("writeEEPROMWithFeatures", 0, features, TRUE,
             writeEEPROMWithFeatures(Begin, env, features))

ResetEEPROM ==
    \E useCustomDefaults \in BOOLEAN :
    \E customOk \in (IF useCustomDefaults THEN BOOLEAN ELSE {TRUE}) :
        Step("resetEEPROM", IF useCustomDefaults THEN 1 ELSE 0, {},
             resetEEPROMReturns(env, useCustomDefaults, customOk),
             resetEEPROM(Begin, env, useCustomDefaults, customOk))

EnsureEEPROMStructureIsValid ==
    Step("ensureEEPROMStructureIsValid", 0, {}, TRUE,
         ensureEEPROMStructureIsValid(Begin, env))

SaveConfigAndNotify ==
    Step("saveConfigAndNotify", 0, {}, TRUE, saveConfigAndNotify(Begin, env))

SetConfigDirty == Step("setConfigDirty", 0, {}, TRUE, setConfigDirty(Begin))

SetRebootRequired == Step("setRebootRequired", 0, {}, TRUE, setRebootRequired(Begin))

PidProfileArgs == {0, PID_PROFILE_COUNT - 1, PID_PROFILE_COUNT, 255}

ChangePidProfile ==
    \E pidProfileIndex \in PidProfileArgs :
        Step("changePidProfile", pidProfileIndex, {}, TRUE,
             changePidProfile(Begin, pidProfileIndex))

CellCounts == 4..MaxCellCount
WildTags == {AUTO_PROFILE_CELL_COUNT_STAY, 127}

ChangePidProfileFromCellCount ==
    \E cellCount \in CellCounts,
       wild \in (IF currentPidProfile \in 0..(PID_PROFILE_COUNT - 1)
                 THEN {AUTO_PROFILE_CELL_COUNT_STAY} ELSE WildTags) :
        Step("changePidProfileFromCellCount", cellCount, {}, TRUE,
             changePidProfileFromCellCount(Begin, cellCount, wild))

-----------------------------------------------------------------------------
(* Timing resolver on its own: validateAndFixGyroConfig over every sensor,      *)
(* hardware lowpass mode, motor protocol, divisor pair and unsynced setting.    *)

Sensors == {"ICM_20649_SPI", "BMI_160_SPI", "MPU_60x0"}
HardwareLpfs == {"GYRO_HARDWARE_LPF_NORMAL", "GYRO_HARDWARE_LPF_1KHZ_SAMPLE"}
MotorProtocols ==
    {"STANDARD", "ONESHOT125", "ONESHOT42", "MULTISHOT", "BRUSHED",
     "DSHOT150", "DSHOT300", "DSHOT600", "PROSHOT1000"}
SyncDenoms == 0..MaxSyncDenom \cup {255}
PidDenoms == 0..MaxPidDenom \cup {17, 255}

GyroBuilds ==
    {[Build(defs, "RX_SERIAL") EXCEPT !.sensor = sensor, !.floatInfToInt = inf] :
        defs \in {CommonDefs \cup RX_DEFS,
                  (CommonDefs \cup RX_DEFS) \cup {"STM32F1"},
                  (CommonDefs \cup RX_DEFS) \ {"USE_DSHOT"}},
        sensor \in Sensors,
        inf \in {-2147483647 - 1, 2147483647}}

InitGyro ==
    /\ env \in GyroBuilds
    /\ \E lpf \in HardwareLpfs, protocol \in MotorProtocols, sync \in SyncDenoms,
          denom \in PidDenoms, unsynced \in BOOLEAN :
          cfg = [DefaultConfig(env) EXCEPT
                    !.gyro_hardware_lpf = lpf, !.motorPwmProtocol = protocol,
                    !.gyro_sync_denom = sync, !.pid_process_denom = denom,
                    !.useUnsyncedPwm = unsynced, !.motorPwmRate = 32000]
    /\ eeprom = [valid |-> FALSE, cfg |-> DefaultConfig(env)]
    /\ InitRest

NextGyro == ValidateAndFixGyroConfig

SpecGyro == InitGyro /\ [][NextGyro]_vars

afterGyro == lastOp.name = "validateAndFixGyroConfig"

(* the loop period is at least the protocol's minimum update interval:
   sync * denom / samplingRate >= 1 / motorUpdateRate *)
loopFeasible(c, e) ==
    c.gyro_sync_denom * c.pid_process_denom * motorUpdateRate(c, e) >= samplingRate(c, e)

(* C2: after validateAndFixGyroConfig returns, samplingInterval x gyro_sync_denom x
   pid_process_denom is at least the minimum update interval of the selected motor
   protocol, for every input configuration. *)
C2_TimingFeasible == afterGyro => loopFeasible(cfg, env)

(* C2, the synced case alone: the same statement restricted to configurations with
   unsynced PWM off and divisors the settings range allows (1 and above). *)
C2_TimingFeasibleSynced ==
    (afterGyro /\ ~entry.cfg.useUnsyncedPwm
       /\ entry.cfg.gyro_sync_denom \in 1..32
       /\ entry.cfg.pid_process_denom \in 1..MAX_PID_PROCESS_DENOM)
    => loopFeasible(cfg, env)

(* C3 as stated: pid_process_denom after validateAndFixGyroConfig is never below its
   value before the call, the 1 kHz-sample mode included. *)
C3_DenomNeverLowered ==
    afterGyro => cfg.pid_process_denom >= entry.cfg.pid_process_denom

(* C3 amended: outside the 1 kHz-sample hardware-lowpass mode pid_process_denom after
   validateAndFixGyroConfig is never below its value before the call; in the 1 kHz-sample
   mode it is reset to 1 and then only raised, so it is at least 1. *)
C3_DenomRaisedOnly ==
    afterGyro =>
        IF entry.cfg.gyro_hardware_lpf = "GYRO_HARDWARE_LPF_1KHZ_SAMPLE"
        THEN cfg.pid_process_denom >= 1
        ELSE cfg.pid_process_denom >= entry.cfg.pid_process_denom

(* a call outside the 1 kHz-sample mode that raised the divisor *)
C3_Witness ==
    /\ afterGyro
    /\ entry.cfg.gyro_hardware_lpf # "GYRO_HARDWARE_LPF_1KHZ_SAMPLE"
    /\ cfg.pid_process_denom > entry.cfg.pid_process_denom
    /\ entry.cfg.pid_process_denom > 0

-----------------------------------------------------------------------------
(* Rule evaluator on its own: validateAndFixConfig over every receiver feature   *)
(* mask and set of compiled-in receivers, over notch settings of every profile, *)
(* and over all-zero and all-max stores under every motor protocol.             *)

ALL_FEATURES ==
    RX_FEATURES \cup
    {"SOFTSPI", "SOFTSERIAL", "GPS", "3D", "DYNAMIC_FILTER", "ESC_SENSOR", "RSSI_ADC",
     "LED_STRIP", "TELEMETRY", "RANGEFINDER", "DASHBOARD", "OSD", "SERVO_TILT",
     "CHANNEL_FORWARDING", "TRANSPONDER"}

FilterValues == {0, 100, 200, FILTER_FREQUENCY_MAX, FILTER_FREQUENCY_MAX + 1, 65535}

AllZeroPidProfile ==
    [dterm_lowpass_hz |-> 0, dterm_lowpass2_hz |-> 0,
     dterm_notch_hz |-> 0, dterm_notch_cutoff |-> 0,
     dyn_lpf_dterm_min_hz |-> 0, dyn_lpf_dterm_max_hz |-> 0,
     motor_output_limit |-> 0, auto_profile_cell_count |-> 0,
     d_min |-> [axis \in 0..FD_YAW |-> 0], D |-> [axis \in 0..FD_YAW |-> 0],
     F |-> [axis \in 0..FD_YAW |-> 0], throttle_boost |-> 0]

AllMaxPidProfile ==
    [dterm_lowpass_hz |-> 65535, dterm_lowpass2_hz |-> 65535,
     dterm_notch_hz |-> 65535, dterm_notch_cutoff |-> 65535,
     dyn_lpf_dterm_min_hz |-> 65535, dyn_lpf_dterm_max_hz |-> 65535,
     motor_output_limit |-> 255, auto_profile_cell_count |-> 127,
     d_min |-> [axis \in 0..FD_YAW |-> 255], D |-> [axis \in 0..FD_YAW |-> 255],
     F |-> [axis \in 0..FD_YAW |-> 65535], throttle_boost |-> 255]

AllZeroConfig ==
    [features |-> {},
     pidProfiles |-> [i \in 0..(PID_PROFILE_COUNT - 1) |-> AllZeroPidProfile],
     motorPwmProtocol |-> "STANDARD", mincommand |-> 0, motorPwmRate |-> 0,
     useUnsyncedPwm |-> FALSE, useDshotTelemetry |-> FALSE,
     useDshotBitbang |-> "DSHOT_BITBANG_OFF", useBurstDshot |-> FALSE,
     gyro_lowpass_hz |-> 0, gyro_lowpass2_hz |-> 0,
     gyro_soft_notch_hz_1 |-> 0, gyro_soft_notch_cutoff_1 |-> 0,
     gyro_soft_notch_hz_2 |-> 0, gyro_soft_notch_cutoff_2 |-> 0,
     dyn_lpf_gyro_min_hz |-> 0, dyn_lpf_gyro_max_hz |-> 0,
     gyro_hardware_lpf |-> "GYRO_HARDWARE_LPF_NORMAL",
     gyro_sync_denom |-> 0, pid_process_denom |-> 0,
     blackbox_device |-> 0, accZero |-> 0, activeRateProfile |-> 0, pidProfileIndex |-> 0,
     configurationState |-> "CONFIGURATION_STATE_DEFAULTS_BARE",
     schedulerOptimizeRate |-> "SCHEDULER_OPTIMIZE_RATE_OFF",
     rssi_channel |-> 0, rssi_src_frame_errors |-> FALSE,
     rcSmoothingIsEnabled |-> FALSE,
     rcInterpolationChannels |-> "INTERPOLATION_CHANNELS_RP",
     failsafe_procedure |-> "FAILSAFE_PROCEDURE_AUTO_LANDING",
     gpsRescueModeCondition |-> FALSE,
     gps_provider |-> "GPS_NMEA", gpsSerialPort |-> FALSE,
     escSensorSerialPort |-> FALSE,
     voltageMeterSource |-> "VOLTAGE_METER_NONE",
     currentMeterSource |-> "CURRENT_METER_NONE",
     vtx_band |-> 0, vtx_channel |-> 0, vtx_power |-> 0, vtx_freq |-> 0,
     vtxTable_bands |-> 0, vtxTable_channels |-> 0, vtxTable_powerLevels |-> 0]

AllMaxConfig ==
    [features |-> ALL_FEATURES,
     pidProfiles |-> [i \in 0..(PID_PROFILE_COUNT - 1) |-> AllMaxPidProfile],
     motorPwmProtocol |-> "PROSHOT1000", mincommand |-> 65535, motorPwmRate |-> 65535,
     useUnsyncedPwm |-> TRUE, useDshotTelemetry |-> TRUE,
     useDshotBitbang |-> "DSHOT_BITBANG_ON", useBurstDshot |-> TRUE,
     gyro_lowpass_hz |-> 65535, gyro_lowpass2_hz |-> 65535,
     gyro_soft_notch_hz_1 |-> 65535, gyro_soft_notch_cutoff_1 |-> 65535,
     gyro_soft_notch_hz_2 |-> 65535, gyro_soft_notch_cutoff_2 |-> 65535,
     dyn_lpf_gyro_min_hz |-> 65535, dyn_lpf_gyro_max_hz |-> 65535,
     gyro_hardware_lpf |-> "GYRO_HARDWARE_LPF_1KHZ_SAMPLE",
     gyro_sync_denom |-> 255, pid_process_denom |-> 255,
     blackbox_device |-> 255, accZero |-> 32767, activeRateProfile |-> 255, pidProfileIndex |-> 255,
     configurationState |-> "CONFIGURATION_STATE_CONFIGURED",
     schedulerOptimizeRate |-> "SCHEDULER_OPTIMIZE_RATE_AUTO",
     rssi_channel |-> 255, rssi_src_frame_errors |-> TRUE,
     rcSmoothingIsEnabled |-> TRUE,
     rcInterpolationChannels |-> "INTERPOLATION_CHANNELS_RPT",
     failsafe_procedure |-> "FAILSAFE_PROCEDURE_GPS_RESCUE",
     gpsRescueModeCondition |-> TRUE,
     gps_provider |-> "GPS_MSP", gpsSerialPort |-> TRUE,
     escSensorSerialPort |-> TRUE,
     voltageMeterSource |-> "VOLTAGE_METER_ESC",
     currentMeterSource |-> "CURRENT_METER_MSP",
     vtx_band |-> 255, vtx_channel |-> 255, vtx_power |-> 255, vtx_freq |-> 65535,
     vtxTable_bands |-> 255, vtxTable_channels |-> 255, vtxTable_powerLevels |-> 255]

(* every set of compiled-in receivers, with and without soft SPI, every default *)
RxBuilds ==
    {Build(CommonDefs \cup rx \cup soft, defaultRx) :
        rx \in SUBSET RX_DEFS, soft \in {{}, {"USE_SOFTSPI"}}, defaultRx \in RX_FEATURES}

InitRxFeatures ==
    /\ env \in RxBuilds
    /\ \E mask \in SUBSET RX_FEATURES, soft \in {{}, {"SOFTSPI"}} :
          cfg = [DefaultConfig(env) EXCEPT !.features = mask \cup soft \cup {"TELEMETRY"}]

InitFilters ==
    /\ env = FullBuild
    /\ \E i \in 0..(PID_PROFILE_COUNT - 1), hz \in FilterValues, cutoff \in FilterValues,
          base \in {DefaultConfig(env), AllMaxConfig} :
          cfg = [base EXCEPT !.pidProfiles[i].dterm_notch_hz = hz,
                             !.pidProfiles[i].dterm_notch_cutoff = cutoff]

InitExtremes ==
    /\ env \in {FullBuild, NoPpmBuild, Build({}, "RX_PARALLEL_PWM"),
                Build(CommonDefs \cup RX_DEFS \cup {"USE_SOFTSPI", "STM32F1", "STM32F10X"},
                      "RX_PPM")}
    /\ \E base \in {AllZeroConfig, AllMaxConfig}, protocol \in MotorProtocols,
          unsynced \in BOOLEAN, features \in {{}, ALL_FEATURES} :
          cfg = [base EXCEPT !.motorPwmProtocol = protocol, !.useUnsyncedPwm = unsynced,
                             !.features = features]

InitValidate ==
    /\ InitRxFeatures \/ InitFilters \/ InitExtremes
    /\ eeprom = [valid |-> FALSE, cfg |-> DefaultConfig(env)]
    /\ InitRest

NextValidate == ValidateAndFixConfig

SpecValidate == InitValidate /\ [][NextValidate]_vars

afterValidate == lastOp.name = "validateAndFixConfig"

(* C1: validation is idempotent: in every state a run of validateAndFixConfig has
   produced, running validateAndFixConfig again leaves the configuration store exactly
   as the first run left it. *)
C1_Idempotent ==
    afterValidate => validateAndFixConfig(St, env).cfg = cfg

rxEnabled(c) == c.features \cap RX_FEATURES

(* C4: after validateAndFixConfig at most one of the receiver-input features (PPM,
   parallel PWM, serial, MSP, SPI) is enabled, for every initial feature mask and
   every set of compiled-in capabilities. *)
C4_RxExclusive == afterValidate => Cardinality(rxEnabled(cfg)) <= 1

(* validation ran on a mask with several receivers and kept exactly one *)
C4_Witness ==
    /\ afterValidate
    /\ Cardinality(rxEnabled(entry.cfg)) >= 3
    /\ Cardinality(rxEnabled(cfg)) = 1

(* C6: after validateAndFixConfig every PID profile has dterm_notch_hz = 0 or
   dterm_notch_cutoff < dterm_notch_hz, whatever the input values were. *)
C6_NotchConsistent ==
    afterValidate =>
        \A i \in 0..(PID_PROFILE_COUNT - 1) :
            \/ cfg.pidProfiles[i].dterm_notch_hz = 0
            \/ cfg.pidProfiles[i].dterm_notch_cutoff < cfg.pidProfiles[i].dterm_notch_hz

(* validation ran on a profile whose centre and cutoff were both above
   FILTER_FREQUENCY_MAX and left the notch enabled at the maximum *)
C6_Witness ==
    /\ afterValidate
    /\ \E i \in 0..(PID_PROFILE_COUNT - 1) :
          /\ entry.cfg.pidProfiles[i].dterm_notch_hz > FILTER_FREQUENCY_MAX
          /\ entry.cfg.pidProfiles[i].dterm_notch_cutoff > FILTER_FREQUENCY_MAX
          /\ cfg.pidProfiles[i].dterm_notch_hz = FILTER_FREQUENCY_MAX
          /\ cfg.pidProfiles[i].dterm_notch_cutoff = 0

-----------------------------------------------------------------------------
(* The whole module: every operation, from a powered-up controller whose memory  *)
(* and storage hold configurations that were never validated.                    *)

withTags(c, tags) ==
    [c EXCEPT !.pidProfiles =
        [i \in 0..(PID_PROFILE_COUNT - 1) |-> [@[i] EXCEPT !.auto_profile_cell_count = tags[i]]]]

tagsOf(c) == [i \in 0..(PID_PROFILE_COUNT - 1) |-> c.pidProfiles[i].auto_profile_cell_count]

StayFourStaySix == [i \in 0..(PID_PROFILE_COUNT - 1) |->
    CASE i = 1 -> 4 [] i = 3 -> 6 [] OTHER -> AUTO_PROFILE_CELL_COUNT_STAY]
FourFourStaySix == [i \in 0..(PID_PROFILE_COUNT - 1) |->
    CASE i = 0 -> 4 [] i = 1 -> 4 [] i = 3 -> 6 [] OTHER -> AUTO_PROFILE_CELL_COUNT_STAY]

Init ==
    /\ env = NoPpmBuild
    /\ cfg = [withTags(DefaultConfig(env), FourFourStaySix) EXCEPT
                  !.features = {"RX_PPM", "TELEMETRY"},
                  !.pidProfileIndex = 200, !.activeRateProfile = 255]
    /\ eeprom \in {[valid |-> FALSE, cfg |-> AllZeroConfig],
                   [valid |-> TRUE, cfg |-> [AllMaxConfig EXCEPT !.motorPwmProtocol = "DSHOT150"]]}
    /\ InitRest

Next ==
    \/ ReadEEPROM
    \/ WriteUnmodifiedConfigToEEPROM
    \/ WriteEEPROM
    \/ WriteEEPROMWithFeatures
    \/ ResetEEPROM
    \/ EnsureEEPROMStructureIsValid
    \/ SaveConfigAndNotify
    \/ SetConfigDirty
    \/ SetRebootRequired
    \/ ChangePidProfile
    \/ ChangePidProfileFromCellCount

Spec == Init /\ [][Next]_vars

(* the operations that run validateAndFixConfig on every path *)
ValidatingOps ==
    {"readEEPROM", "writeUnmodifiedConfigToEEPROM", "writeEEPROM",
     "writeEEPROMWithFeatures", "saveConfigAndNotify"}

PersistenceOps == ValidatingOps \cup {"resetEEPROM", "ensureEEPROMStructureIsValid"}

profileIndicesInBounds(c) ==
    /\ c.activeRateProfile < CONTROL_RATE_PROFILE_COUNT
    /\ c.pidProfileIndex < PID_PROFILE_COUNT

(* C5: after validation of any input activeRateProfile < CONTROL_RATE_PROFILE_COUNT and
   pidProfileIndex < PID_PROFILE_COUNT, and once they hold they still hold after every
   later changePidProfile (any index), changePidProfileFromCellCount, read or write. *)
C5_IndicesInBounds ==
    [][/\ lastOp'.name \in ValidatingOps => profileIndicesInBounds(cfg')
       /\ profileIndicesInBounds(cfg) => profileIndicesInBounds(cfg')]_vars

(* changePidProfile with an index past the array, called on a store whose indices
   were in bounds *)
C5_Witness ==
    /\ lastOp.name = "changePidProfile"
    /\ lastOp.arg >= PID_PROFILE_COUNT
    /\ profileIndicesInBounds(entry.cfg)
    /\ profileIndicesInBounds(cfg)

isStorageCall(c) == c.fn \in {"loadEEPROM", "writeConfigToEEPROM"}

(* C9: every persistence operation returns with the suspend counter at its value at
   entry, a read whose load fails and a reset that returns false included, and each
   loadEEPROM or writeConfigToEEPROM call is made with the signal suspended. *)
C9_SuspendBalanced ==
    lastOp.name \in PersistenceOps =>
        /\ suspendCount = entry.suspendCount
        /\ \A i \in DOMAIN calls :
              isStorageCall(calls[i]) => calls[i].arg > entry.suspendCount

(* a readEEPROM whose load reported failure: the load ran suspended, and the counter
   is back at its entry value *)
C9_Witness ==
    /\ lastOp.name = "readEEPROM"
    /\ ~lastOp.ok
    /\ \E i \in DOMAIN calls : calls[i].fn = "loadEEPROM" /\ calls[i].arg = 1
    /\ suspendCount = 0

(* C10: in every state writeUnmodifiedConfigToEEPROM has produced, storage holds the
   validated configuration that is in memory, and a readEEPROM from there succeeds and
   leaves the in-memory configuration equal to it: the validation run by the read
   changes nothing. *)
C10_RoundTrip ==
    lastOp.name = "writeUnmodifiedConfigToEEPROM" =>
        /\ eeprom = [valid |-> TRUE, cfg |-> cfg]
        /\ readEEPROMSuccess(St)
        /\ readEEPROM(St, env, FALSE).cfg = cfg

-----------------------------------------------------------------------------
(* Profile manager on its own: changePidProfile and changePidProfileFromCellCount  *)
(* over every tagging of the PID profiles, from a validated and activated store.  *)

ProfileTags == {AUTO_PROFILE_CELL_COUNT_STAY, 4, 6}

InitProfile ==
    /\ env = FullBuild
    /\ \E tags \in [0..(PID_PROFILE_COUNT - 1) -> ProfileTags],
          i \in 0..(PID_PROFILE_COUNT - 1) :
          /\ cfg = [withTags(DefaultConfig(env), tags) EXCEPT !.pidProfileIndex = i]
          /\ currentPidProfile = i
    /\ currentControlRateProfile = cfg.activeRateProfile
    /\ eeprom = [valid |-> TRUE, cfg |-> cfg]
    /\ configIsDirty = FALSE
    /\ rebootRequired = FALSE
    /\ suspendCount = 0
    /\ calls = <<>>
    /\ hung = FALSE
    /\ lastOp = [name |-> "init", arg |-> 0, mask |-> {}, ok |-> TRUE]
    /\ entry = St

NextProfile ==
    \/ ChangePidProfile
    \/ ChangePidProfileFromCellCount

SpecProfile == InitProfile /\ [][NextProfile]_vars

afterCellCount == lastOp.name = "changePidProfileFromCellCount"

entryTag(i) == entry.cfg.pidProfiles[i].auto_profile_cell_count

entryCurrentTag == entryTag(entry.currentPidProfile)

beeped == \E i \in DOMAIN calls : calls[i].fn = "beeperConfirmationBeeps"

(* C7 as stated: with profiles tagged [Stay, 4, Stay, 6], active index 0 and
   changePidProfileFromCellCount(6), the active profile index becomes 3. *)
C7_StayCurrentSwitches ==
    (/\ afterCellCount /\ lastOp.arg = 6
     /\ entry.cfg.pidProfileIndex = 0 /\ entry.currentPidProfile = 0
     /\ tagsOf(entry.cfg) = StayFourStaySix)
    => cfg.pidProfileIndex = 3

(* C7, amended: with profiles tagged [Stay, 4, Stay, 6] and active index 0 (tag Stay),
   changePidProfileFromCellCount(6) returns at once: the index stays 0 and nothing is
   signalled.  With profiles tagged [4, 4, Stay, 6] and active index 0 the same call
   makes the active index 3, the exact match, not 2, the stay-tagged profile the scan
   meets first. *)
C7_ExactMatchWins ==
    (/\ afterCellCount /\ lastOp.arg = 6
     /\ entry.cfg.pidProfileIndex = 0 /\ entry.currentPidProfile = 0)
    => /\ tagsOf(entry.cfg) = StayFourStaySix =>
              (cfg.pidProfileIndex = 0 /\ currentPidProfile = 0 /\ ~beeped)
       /\ tagsOf(entry.cfg) = FourFourStaySix =>
              (cfg.pidProfileIndex = 3 /\ currentPidProfile = 3 /\ beeped)

(* changePidProfileFromCellCount(6) on [4, 4, Stay, 6] from index 0 ended on index 3 *)
C7_Witness ==
    /\ afterCellCount /\ lastOp.arg = 6
    /\ entry.cfg.pidProfileIndex = 0 /\ entry.currentPidProfile = 0
    /\ tagsOf(entry.cfg) = FourFourStaySix
    /\ cfg.pidProfileIndex = 3

(* the slots other than the current one, as offsets from it in scan order *)
ScanOffsets == 1..(PID_PROFILE_COUNT - 1)

scanSlot(k) == (entry.cfg.pidProfileIndex + k) % PID_PROFILE_COUNT

noOtherExact == \A k \in ScanOffsets : entryTag(scanSlot(k)) # lastOp.arg

stayOffsets == {k \in ScanOffsets : entryTag(scanSlot(k)) = AUTO_PROFILE_CELL_COUNT_STAY}

firstStayOffset == CHOOSE k \in stayOffsets : \A j \in stayOffsets : k <= j

fallbackOutcome ==
    IF stayOffsets = {}
    THEN cfg.pidProfileIndex = entry.cfg.pidProfileIndex /\ ~beeped
    ELSE /\ cfg.pidProfileIndex = scanSlot(firstStayOffset)
         /\ cfg.pidProfileIndex # entry.cfg.pidProfileIndex
         /\ currentPidProfile = cfg.pidProfileIndex

(* C8 as stated: whenever changePidProfileFromCellCount(c) is called and no profile
   other than the current one is tagged c, the first stay-tagged profile of the
   circular scan becomes active, and with no other stay-tagged slot the index is
   unchanged and nothing is signalled. *)
C8_FallbackAlways == (afterCellCount /\ noOtherExact) => fallbackOutcome

(* C8, amended: when changePidProfileFromCellCount(c) is called while the current
   profile is tagged neither c nor Stay, and no other profile is tagged c, the first
   stay-tagged profile of the circular scan that starts after the current slot becomes
   active, never the current slot; with no other stay-tagged slot the index is
   unchanged and nothing is signalled.  A current profile tagged c or Stay makes the
   call a no-op whatever the other tags are. *)
C8_Fallback ==
    /\ (/\ afterCellCount /\ noOtherExact
        /\ entryCurrentTag \notin {lastOp.arg, AUTO_PROFILE_CELL_COUNT_STAY})
       => fallbackOutcome
    /\ (afterCellCount /\ entryCurrentTag \in {lastOp.arg, AUTO_PROFILE_CELL_COUNT_STAY})
       => (cfg = entry.cfg /\ currentPidProfile = entry.currentPidProfile /\ ~beeped)

(* a fallback that had two stay-tagged slots to choose from and took the first *)
C8_Witness ==
    /\ afterCellCount /\ noOtherExact
    /\ entryCurrentTag \notin {lastOp.arg, AUTO_PROFILE_CELL_COUNT_STAY}
    /\ \E j, k \in stayOffsets : j < k
    /\ cfg.pidProfileIndex = scanSlot(firstStayOffset)

-----------------------------------------------------------------------------
(* Activation on its own: activateConfig on every store of InitValidate, as    *)
(* loaded and after validation.                                                *)

ActivateConfig == Step("activateConfig", 0, {}, TRUE, activateConfig(Begin, env))

NextActivate ==
    \/ ActivateConfig
    \/ ValidateAndFixConfig

SpecActivate == InitValidate /\ [][NextActivate]_vars

afterActivate == lastOp.name = "activateConfig"

called(fn) == \E i \in DOMAIN calls : calls[i].fn = fn

(* C11: activateConfig leaves the configuration store unchanged: every parameter-group
   field (system config, PID profiles, feature mask, accelerometer trims and the rest)
   has after activateConfig the value it had before, as have storage and the dirty and
   reboot flags; what changes is the pair of current-profile pointers, which now point
   at the slots the store names, and the dependent subsystems, through their own
   re-initialisation calls. *)
C11_ActivateFrame ==
    afterActivate =>
        /\ cfg = entry.cfg
        /\ eeprom = entry.eeprom
        /\ configIsDirty = entry.configIsDirty
        /\ rebootRequired = entry.rebootRequired
        /\ currentPidProfile = cfg.pidProfileIndex
        /\ currentControlRateProfile = cfg.activeRateProfile
        /\ called("pidInit")

(* an activation that moved the profile pointers, handed out the accelerometer trims of
   a store holding non-zero trims, and left the store as it was *)
C11_Witness ==
    /\ afterActivate
    /\ entry.currentPidProfile = NULL
    /\ currentPidProfile # NULL
    /\ \E i \in DOMAIN calls :
          calls[i].fn = "setAccelerationTrims" /\ calls[i].arg = cfg.accZero
    /\ cfg.accZero # 0
    /\ cfg = entry.cfg

-----------------------------------------------------------------------------
(* changePidProfile, under SpecProfile *)

afterChangePidProfile == lastOp.name = "changePidProfile"

(* C12: changePidProfile(index) with index >= PID_PROFILE_COUNT leaves the store, so
   pidProfileIndex, and the current-profile pointer unchanged, calls neither pidInit
   nor initEscEndpoints, and makes exactly one call of beeperConfirmationBeeps; with
   index < PID_PROFILE_COUNT it sets pidProfileIndex to index and nothing else in the
   store, points the current profile at that slot, calls pidInit on it, then
   initEscEndpoints, then beeperConfirmationBeeps with the now-active index plus 1. *)
C12_ChangePidProfile ==
    afterChangePidProfile =>
        IF lastOp.arg >= PID_PROFILE_COUNT
        THEN /\ cfg = entry.cfg
             /\ currentPidProfile = entry.currentPidProfile
             /\ Len(calls) = 1
             /\ calls[1].fn = "beeperConfirmationBeeps"
        ELSE /\ cfg = [entry.cfg EXCEPT !.pidProfileIndex = lastOp.arg]
             /\ currentPidProfile = lastOp.arg
             /\ calls = << [fn |-> "pidInit", arg |-> currentPidProfile],
                           [fn |-> "initEscEndpoints", arg |-> 0],
                           [fn |-> "beeperConfirmationBeeps",
                            arg |-> cfg.pidProfileIndex + 1] >>

(* a changePidProfile with the first index past the array, on a store whose active
   profile was another one: one signal, nothing moved *)
C12_Witness ==
    /\ afterChangePidProfile
    /\ lastOp.arg = PID_PROFILE_COUNT
    /\ entry.cfg.pidProfileIndex = PID_PROFILE_COUNT - 1
    /\ cfg.pidProfileIndex = PID_PROFILE_COUNT - 1
    /\ called("beeperConfirmationBeeps")

-----------------------------------------------------------------------------
(* The scan of changePidProfileFromCellCount *)

(* the call went past the early return of line 771, as far as the state at entry tells:
   a current-profile pointer inside the array whose tag is neither the cell count nor
   Stay *)
scanRan ==
    /\ entry.currentPidProfile \in 0..(PID_PROFILE_COUNT - 1)
    /\ entryCurrentTag \notin {lastOp.arg, AUTO_PROFILE_CELL_COUNT_STAY}

slotsVisited == profileScan(entry, lastOp.arg).visited

(* C13: the circular scan of changePidProfileFromCellCount terminates, and visits at
   most PID_PROFILE_COUNT - 1 slots, for every pidProfileIndex the store holds when it
   is called, an index >= PID_PROFILE_COUNT that was never validated included, and
   every cell count. *)
C13_ScanTerminates ==
    afterCellCount =>
        /\ ~hung
        /\ scanRan => slotsVisited <= PID_PROFILE_COUNT - 1

(* C13 for a pidProfileIndex below PID_PROFILE_COUNT only: the scan ends after at most
   PID_PROFILE_COUNT - 1 slots. *)
C13_ScanTerminatesInRange ==
    (afterCellCount /\ entry.cfg.pidProfileIndex < PID_PROFILE_COUNT) =>
        /\ ~hung
        /\ scanRan => slotsVisited <= PID_PROFILE_COUNT - 1

-----------------------------------------------------------------------------
(* The dirty and reboot flags, under Spec *)

(* the operations that end in a completed storage write; ensureEEPROMStructureIsValid
   is one when storage is invalid, through the resetEEPROM(false) it calls *)
WritingOps ==
    {"writeUnmodifiedConfigToEEPROM", "writeEEPROM", "writeEEPROMWithFeatures",
     "resetEEPROM", "saveConfigAndNotify", "ensureEEPROMStructureIsValid"}

FlagNeutralOps ==
    {"readEEPROM", "changePidProfile", "changePidProfileFromCellCount", "setRebootRequired"}

(* C14: over any sequence of operations, configIsDirty becomes true only by
   setConfigDirty, and becomes false only in an operation that completed a storage
   write (writeUnmodifiedConfigToEEPROM, writeEEPROM, writeEEPROMWithFeatures, a
   resetEEPROM that returns true, directly or from ensureEEPROMStructureIsValid, and
   saveConfigAndNotify); readEEPROM, changePidProfile, changePidProfileFromCellCount,
   setRebootRequired and a resetEEPROM that returns false leave it as it was; and
   rebootRequired, once true, stays true. *)
C14_DirtyProtocol ==
    [][/\ (~configIsDirty /\ configIsDirty') => lastOp'.name = "setConfigDirty"
       /\ (configIsDirty /\ ~configIsDirty') =>
              /\ lastOp'.name \in WritingOps
              /\ lastOp'.ok
              /\ \E i \in DOMAIN calls' : calls'[i].fn = "writeConfigToEEPROM"
       /\ (\/ lastOp'.name \in FlagNeutralOps
           \/ (lastOp'.name = "resetEEPROM" /\ ~lastOp'.ok))
              => configIsDirty' = configIsDirty
       /\ rebootRequired => rebootRequired'
      ]_vars

(* a writeEEPROM that cleared a dirty flag set earlier and left the reboot flag set *)
C14_Witness ==
    /\ lastOp.name = "writeEEPROM"
    /\ entry.configIsDirty /\ ~configIsDirty
    /\ entry.rebootRequired /\ rebootRequired

====
